---- MODULE Spec2Model ----
(***************************************************************************)
(* A model of bqproxy (src/main.go, lines 1-165): queryHandler, castField  *)
(* and buildQueryParams.  The older copies of the handler that follow in   *)
(* src/main.go and in src/unnamed/part_000, which bind the parameters in   *)
(* the handler and drop the errors of strconv, are not what is modelled.   *)
(*                                                                         *)
(* Strings that are parsed (the raw values of the URL query string) are    *)
(* sequences of one-character strings, so that strconv.Atoi and            *)
(* strconv.ParseFloat are computed character by character.  Names (query   *)
(* names, parameter names, column names, field types) are only compared,   *)
(* and are TLA+ strings.                                                   *)
(***************************************************************************)
EXTENDS Integers, Sequences, FiniteSets, TLC

(***************************************************************************)
(* Bounds of the model.                                                    *)
(***************************************************************************)
\* values a request supplies for one parameter name (url.Values[key])
MaxValues == 2
\* calls of it.Next the row loop is followed for
MaxNext == 3

(***************************************************************************)
(* bigquery.FieldType, as far as the code switches on it.  TIMESTAMP       *)
(* stands for every type the two switches leave to their default arm.      *)
(***************************************************************************)
IntegerFieldType == "INTEGER"
StringFieldType == "STRING"
BooleanFieldType == "BOOLEAN"
FloatFieldType == "FLOAT"
TimestampFieldType == "TIMESTAMP"
FieldTypes ==
  {IntegerFieldType, StringFieldType, BooleanFieldType, FloatFieldType,
   TimestampFieldType}

(***************************************************************************)
(* Characters and digit strings.                                           *)
(***************************************************************************)
DigitChars == <<"0", "1", "2", "3", "4", "5", "6", "7", "8", "9">>

IsDigit(c) == \E i \in 1..10 : DigitChars[i] = c

DigitVal(c) == (CHOOSE i \in 1..10 : DigitChars[i] = c) - 1

AllDigits(s) == \A i \in 1..Len(s) : IsDigit(s[i])

Drop(s, n) == SubSeq(s, n + 1, Len(s))

\* a digit string without its leading zeros ("007" -> "7", "000" -> "")
RECURSIVE StripZeros(_)
StripZeros(s) ==
  IF s # <<>> /\ Head(s) = "0" THEN StripZeros(Tail(s)) ELSE s

\* a digit string without its trailing zeros
RECURSIVE StripTrailingZeros(_)
StripTrailingZeros(s) ==
  IF s # <<>> /\ s[Len(s)] = "0"
  THEN StripTrailingZeros(SubSeq(s, 1, Len(s) - 1))
  ELSE s

\* a < b for digit strings of equal length
RECURSIVE DigitsLess(_, _)
DigitsLess(a, b) ==
  IF a = <<>> \/ b = <<>> THEN FALSE
  ELSE IF DigitVal(Head(a)) # DigitVal(Head(b))
       THEN DigitVal(Head(a)) < DigitVal(Head(b))
       ELSE DigitsLess(Tail(a), Tail(b))

\* a <= b for the magnitudes two zero-stripped digit strings denote
MagLE(a, b) ==
  \/ Len(a) < Len(b)
  \/ Len(a) = Len(b) /\ ~DigitsLess(b, a)

ToLower(c) ==
  CASE c = "I" -> "i" [] c = "N" -> "n" [] c = "F" -> "f" [] c = "T" -> "t"
    [] c = "Y" -> "y" [] c = "A" -> "a" [] c = "E" -> "e" [] OTHER -> c

LowerStr(s) == [i \in 1..Len(s) |-> ToLower(s[i])]

(***************************************************************************)
(* strconv.Atoi on a 64-bit build (GOARCH=amd64, src/unnamed/part_000:13). *)
(* The value is kept as a sign and a zero-stripped digit string, so that   *)
(* no width of TLC's integers stands in for int64; the range test compares *)
(* digit strings with the int64 limits.                                    *)
(***************************************************************************)
NoErr == "nil"
ErrSyntax == "invalid syntax"
ErrRange == "value out of range"

MaxInt64Digits ==
  <<"9", "2", "2", "3", "3", "7", "2", "0", "3", "6", "8", "5", "4", "7",
    "7", "5", "8", "0", "7">>
MinInt64Digits ==
  <<"9", "2", "2", "3", "3", "7", "2", "0", "3", "6", "8", "5", "4", "7",
    "7", "5", "8", "0", "8">>

IntValue(neg, mag) ==
  [t |-> "int", neg |-> (neg /\ mag # <<>>), mag |-> mag]

Atoi(s) ==
  LET signed == s # <<>> /\ Head(s) \in {"+", "-"}
      neg == s # <<>> /\ Head(s) = "-"
      digits == IF signed THEN Tail(s) ELSE s
      mag == StripZeros(digits)
  IN IF digits = <<>> \/ ~AllDigits(digits)
     THEN [v |-> IntValue(FALSE, <<>>), err |-> ErrSyntax]
     ELSE IF neg /\ ~MagLE(mag, MinInt64Digits)
     THEN [v |-> IntValue(TRUE, MinInt64Digits), err |-> ErrRange]
     ELSE IF ~neg /\ ~MagLE(mag, MaxInt64Digits)
     THEN [v |-> IntValue(FALSE, MaxInt64Digits), err |-> ErrRange]
     ELSE [v |-> IntValue(neg, mag), err |-> NoErr]

(***************************************************************************)
(* strconv.ParseFloat(s, 64).  The raw strings of the model hold no "_"    *)
(* and no "p", so a digit separator and a hexadecimal exponent do not      *)
(* occur: a hexadecimal mantissa ("0x...") is then always a syntax error.  *)
(* A finite value is kept as the decimal it denotes, normalised: sign,     *)
(* significant digits without leading or trailing zeros, and the power of  *)
(* ten of the last digit.  (Two decimals of more than 17 significant       *)
(* digits that round to one double stay distinct here.)                    *)
(***************************************************************************)
\* math.MaxFloat64 plus half a unit in the last place, 1.797693134862315808e308
OverflowDigits ==
  <<"1", "7", "9", "7", "6", "9", "3", "1", "3", "4", "8", "6", "2", "3",
    "1", "5", "8", "0", "8">>
\* half the smallest denormal, 2.470328229206232721e-324
UnderflowDigits ==
  <<"2", "4", "7", "0", "3", "2", "8", "2", "2", "9", "2", "0", "6", "2",
    "3", "2", "7", "2", "1">>

PadTo(s, n) == [i \in 1..n |-> IF i <= Len(s) THEN s[i] ELSE "0"]

\* a >= b, both read as the decimal fractions d.ddd...
FracGE(a, b) ==
  LET n == IF Len(a) > Len(b) THEN Len(a) ELSE Len(b)
  IN ~DigitsLess(PadTo(a, n), PadTo(b, n))

FloatInf(neg) == [t |-> "float", kind |-> "inf", neg |-> neg, mant |-> <<>>, exp |-> 0]
FloatNaN == [t |-> "float", kind |-> "nan", neg |-> FALSE, mant |-> <<>>, exp |-> 0]
FloatZero(neg) == [t |-> "float", kind |-> "zero", neg |-> neg, mant |-> <<>>, exp |-> 0]
FloatFinite(neg, mant, exp) ==
  [t |-> "float", kind |-> "finite", neg |-> neg, mant |-> mant, exp |-> exp]

\* the exponent's digits as a number; readFloat stops accumulating at 10000
RECURSIVE ExpAcc(_, _)
ExpAcc(digits, e) ==
  IF digits = <<>> THEN e
  ELSE ExpAcc(Tail(digits), IF e < 10000 THEN e * 10 + DigitVal(Head(digits)) ELSE e)

\* index of the first character of s in set cs, 0 when there is none
FirstIn(s, cs) ==
  IF \E i \in 1..Len(s) : s[i] \in cs
  THEN CHOOSE i \in 1..Len(s) : s[i] \in cs /\ \A j \in 1..(i - 1) : s[j] \notin cs
  ELSE 0

\* the decimal sign * 0.mant... scaled: mant are all the mantissa's digits,
\* exp the power of ten of the last of them
RoundDecimal(neg, digits, exp) ==
  LET lead == StripZeros(digits)
      mant == StripTrailingZeros(lead)
      e10 == exp + (Len(lead) - Len(mant))
      sci == e10 + Len(mant) - 1
  IN IF mant = <<>> THEN [v |-> FloatZero(neg), err |-> NoErr]
     ELSE IF sci > 308 \/ (sci = 308 /\ FracGE(mant, OverflowDigits))
     THEN [v |-> FloatInf(neg), err |-> ErrRange]
     ELSE IF sci < -324 \/ (sci = -324 /\ FracGE(UnderflowDigits, mant))
     THEN [v |-> FloatZero(neg), err |-> NoErr]
     ELSE [v |-> FloatFinite(neg, mant, e10), err |-> NoErr]

ParseFloat(s) ==
  LET signed == s # <<>> /\ Head(s) \in {"+", "-"}
      neg == s # <<>> /\ Head(s) = "-"
      body == IF signed THEN Tail(s) ELSE s
      low == LowerStr(body)
      hex == Len(body) > 2 /\ body[1] = "0" /\ low[2] = "x"
      ePos == FirstIn(low, {"e"})
      mantStr == IF ePos = 0 THEN body ELSE SubSeq(body, 1, ePos - 1)
      expStr == IF ePos = 0 THEN <<>> ELSE Drop(body, ePos)
      dotPos == FirstIn(mantStr, {"."})
      intDigits == IF dotPos = 0 THEN mantStr ELSE SubSeq(mantStr, 1, dotPos - 1)
      fracDigits == IF dotPos = 0 THEN <<>> ELSE Drop(mantStr, dotPos)
      expSigned == expStr # <<>> /\ Head(expStr) \in {"+", "-"}
      expDigits == IF expSigned THEN Tail(expStr) ELSE expStr
      expMag == ExpAcc(expDigits, 0)
      e == IF expStr # <<>> /\ Head(expStr) = "-" THEN -expMag ELSE expMag
      mantOk ==
        /\ AllDigits(intDigits)
        /\ AllDigits(fracDigits)
        /\ intDigits \o fracDigits # <<>>
      expOk == ePos = 0 \/ (expDigits # <<>> /\ AllDigits(expDigits))
      syntax == [v |-> FloatZero(FALSE), err |-> ErrSyntax]
  IN IF low \in {<<"i", "n", "f">>, <<"i", "n", "f", "i", "n", "i", "t", "y">>}
     THEN [v |-> FloatInf(neg), err |-> NoErr]
     ELSE IF ~signed /\ low = <<"n", "a", "n">>
     THEN [v |-> FloatNaN, err |-> NoErr]
     ELSE IF hex \/ ~mantOk \/ ~expOk THEN syntax
     ELSE RoundDecimal(neg, intDigits \o fracDigits, e - Len(fracDigits))

(***************************************************************************)
(* The inputs of the model.                                                *)
(***************************************************************************)
\* raw strings a request may give as the first value of a parameter
RawStrings ==
  { <<>>,
    <<"1">>,
    <<"4", "2">>,
    <<"-", "7">>,
    <<"+", "0", "0", "7">>,
    <<"1", ".", "5">>,
    <<"1", "e", "3">>,
    <<"1", "e", "9", "9", "9">>,
    <<"9", "2", "2", "3", "3", "7", "2", "0", "3", "6", "8", "5", "4", "7",
      "7", "5", "8", "0", "8">>,
    <<"a", "b", "c">>,
    <<"b", "r", "a", "v", "o">>,
    <<"t", "r", "u", "e">>,
    <<"T", "r", "u", "e">>,
    <<"f", "a", "l", "s", "e">> }

\* raw strings a request may repeat a parameter with (the later values)
LaterStrings == { <<"1">>, <<"t", "r", "u", "e">> }

\* the raw strings of the requests sent to queryHandler
RequestStrings == { <<"1", ".", "5">>, <<"a", "b", "c">> }

\* parameter names, and column names, with their place in the order of strings
NameRank == [n \in {"id", "name"} |-> IF n = "id" THEN 1 ELSE 2]
ParamNames == DOMAIN NameRank

SeqsUpTo(S, n) == UNION { [1..k -> S] : k \in 0..n }

\* url.Values restricted to one key: no value, or a first value and later ones
ValueLists(firsts) ==
  { <<>> } \cup
  { <<f>> \o rest : f \in firsts, rest \in SeqsUpTo(LaterStrings, MaxValues - 1) }

\* url.Values over the parameter names: name -> the values given for it
UrlValues(firsts) == [ParamNames -> ValueLists(firsts)]

\* map[string]bigquery.FieldType
Configs == UNION { [D -> FieldTypes] : D \in SUBSET ParamNames }

\* the orders in which a range statement may visit the keys of a Go map
Orders(m) ==
  LET D == DOMAIN m
      n == Cardinality(D)
  IN { o \in [1..n -> D] : \A i, j \in 1..n : i # j => o[i] # o[j] }

(***************************************************************************)
(* buildQueryParams (src/main.go:135-165).                                 *)
(***************************************************************************)
\* url.Values.Get: the first value given for key, "" when there is none
Get(vals, key) ==
  IF key \in DOMAIN vals /\ vals[key] # <<>> THEN vals[key][1] ELSE <<>>

StringValue(raw) == [t |-> "string", s |-> raw]
BoolValue(b) == [t |-> "bool", b |-> b]

\* ConvertParam with the errors of Atoi and ParseFloat dropped (v, _ = ...)
ConvertParamSwallow(fieldType, raw) ==
  CASE fieldType = IntegerFieldType -> [v |-> Atoi(raw).v, err |-> NoErr]
    [] fieldType = BooleanFieldType ->
         [v |-> BoolValue(raw = <<"t", "r", "u", "e">>), err |-> NoErr]
    [] fieldType = FloatFieldType -> [v |-> ParseFloat(raw).v, err |-> NoErr]
    [] OTHER -> [v |-> StringValue(raw), err |-> NoErr]

\* ConvertParam with the Boolean arm parsing as strconv.ParseBool does
ConvertParamParseBool(fieldType, raw) ==
  CASE fieldType = IntegerFieldType -> Atoi(raw)
    [] fieldType = BooleanFieldType ->
         IF raw \in { <<"1">>, <<"t">>, <<"T">>, <<"t", "r", "u", "e">>,
                      <<"T", "r", "u", "e">>, <<"T", "R", "U", "E">> }
         THEN [v |-> BoolValue(TRUE), err |-> NoErr]
         ELSE IF raw \in { <<"0">>, <<"f">>, <<"F">>, <<"f", "a", "l", "s", "e">>,
                           <<"F", "a", "l", "s", "e">>, <<"F", "A", "L", "S", "E">> }
         THEN [v |-> BoolValue(FALSE), err |-> NoErr]
         ELSE [v |-> BoolValue(FALSE), err |-> ErrSyntax]
    [] fieldType = FloatFieldType -> ParseFloat(raw)
    [] OTHER -> [v |-> StringValue(raw), err |-> NoErr]

\* ConvertParam with the default arm refusing an empty string
ConvertParamRequired(fieldType, raw) ==
  CASE fieldType = IntegerFieldType -> Atoi(raw)
    [] fieldType = BooleanFieldType ->
         [v |-> BoolValue(raw = <<"t", "r", "u", "e">>), err |-> NoErr]
    [] fieldType = FloatFieldType -> ParseFloat(raw)
    [] OTHER ->
         IF raw = <<>> THEN [v |-> StringValue(raw), err |-> ErrSyntax]
         ELSE [v |-> StringValue(raw), err |-> NoErr]

\* the switch on fieldType: the native value and the error of the conversion
ConvertParam(fieldType, raw) ==
  CASE fieldType = IntegerFieldType -> Atoi(raw)
    [] fieldType = BooleanFieldType ->
         [v |-> BoolValue(raw = <<"t", "r", "u", "e">>), err |-> NoErr]
    [] fieldType = FloatFieldType -> ParseFloat(raw)
    [] OTHER -> [v |-> StringValue(raw), err |-> NoErr]

QueryParameter(key, v) == [Name |-> key, Value |-> v]

\* the loop over config, visiting its keys in the given order; at is the key
\* whose conversion failed ("" when none did), which the Go error does not name
RECURSIVE BuildLoop(_, _, _, _)
BuildLoop(cfg, vals, order, params) ==
  IF order = <<>>
  THEN [params |-> params, isNil |-> FALSE, err |-> NoErr, at |-> ""]
  ELSE LET key == Head(order)
           c == ConvertParam(cfg[key], Get(vals, key))
       IN IF c.err # NoErr
          THEN [params |-> <<>>, isNil |-> TRUE, err |-> c.err, at |-> key]
          ELSE BuildLoop(cfg, vals, Tail(order),
                         Append(params, QueryParameter(key, c.v)))

buildQueryParams(cfg, vals, order) == BuildLoop(cfg, vals, order, <<>>)

(***************************************************************************)
(* castField and the projection of one row (src/main.go:105-110, 118-133). *)
(* A bigquery.Value is kept as its dynamic Go type and an opaque payload.  *)
(***************************************************************************)
NilValue == [t |-> "nil", v |-> ""]

\* the values an engine row may hold; []Value is what a REPEATED column holds
EngineValues ==
  { NilValue,
    [t |-> "int64", v |-> "2"],
    [t |-> "string", v |-> "bravo"],
    [t |-> "bool", v |-> "true"],
    [t |-> "float64", v |-> "1.5"],
    [t |-> "[]Value", v |-> "[1 2]"] }

ColNames == {"id", "name"}

\* the Go type each type assertion of castField asks for
AssertedType(fieldType) ==
  CASE fieldType = IntegerFieldType -> "int64"
    [] fieldType = StringFieldType -> "string"
    [] fieldType = BooleanFieldType -> "bool"
    [] fieldType = FloatFieldType -> "float64"
    [] OTHER -> "any"

\* v.(T): the value, or the run-time panic of a failed single-value assertion
TypeAssert(v, goType) ==
  IF v.t = goType THEN [panic |-> FALSE, v |-> v] ELSE [panic |-> TRUE, v |-> NilValue]

\* castField with a null answered by the zero value of the column's type
castFieldZeroForNull(fieldType, v) ==
  IF v = NilValue
  THEN IF AssertedType(fieldType) = "any" THEN [panic |-> FALSE, v |-> NilValue]
       ELSE [panic |-> FALSE, v |-> [t |-> AssertedType(fieldType), v |-> ""]]
  ELSE IF AssertedType(fieldType) = "any" THEN [panic |-> FALSE, v |-> v]
  ELSE TypeAssert(v, AssertedType(fieldType))

castField(fieldType, v) ==
  IF v = NilValue THEN [panic |-> FALSE, v |-> NilValue]
  ELSE IF AssertedType(fieldType) = "any" THEN [panic |-> FALSE, v |-> v]
  ELSE TypeAssert(v, AssertedType(fieldType))

\* rawRow[name]: the zero Value, nil, for a key the map does not hold
RowGet(rawRow, name) == IF name \in DOMAIN rawRow THEN rawRow[name] ELSE NilValue

\* row[name] = v
MapSet(row, name, v) ==
  [n \in DOMAIN row \cup {name} |-> IF n = name THEN v ELSE row[n]]

\* the loop over it.Schema, a panic of castField ending it
RECURSIVE ProjectLoop(_, _, _)
ProjectLoop(fields, rawRow, row) ==
  IF fields = <<>> THEN [panic |-> FALSE, row |-> row]
  ELSE LET field == Head(fields)
           c == castField(field.Type, RowGet(rawRow, field.Name))
       IN IF c.panic THEN [panic |-> TRUE, row |-> row]
          ELSE ProjectLoop(Tail(fields), rawRow, MapSet(row, field.Name, c.v))

ProjectRow(fields, rawRow) == ProjectLoop(fields, rawRow, <<>>)

FieldNames(fields) == { fields[i].Name : i \in 1..Len(fields) }

\* bigquery.Schema: fields of distinct names, a REPEATED one holding a list
Schemas ==
  { f \in SeqsUpTo([Name : ColNames, Type : FieldTypes, Repeated : BOOLEAN],
                   Cardinality(ColNames)) :
      \A i, j \in 1..Len(f) : i # j => f[i].Name # f[j].Name }

\* map[string]bigquery.Value
RawRows == UNION { [D -> EngineValues] : D \in SUBSET ColNames }

(***************************************************************************)
(* The state.                                                              *)
(***************************************************************************)
VARIABLES
  pc,         \* where the handler (or the function called alone) stands
  path,       \* r.URL.Path of the request
  values,     \* r.URL.Query()
  config,     \* query.Parameters of the query looked up
  bound,      \* what buildQueryParams returned
  submitted,  \* q.Parameters as the engine received them with q.Read
  status,     \* the response's status code, 0 while no header is written
  body,       \* the response's body
  schema,     \* it.Schema
  rawRow,     \* the map it.Next loaded last
  projected,  \* the outcome of the last row's projection
  rows,       \* the rows collected for the response
  it,         \* the row iterator: whether it failed, whether a failure stays
  calls,      \* calls made for this request: buildQueryParams, q.Read, it.Next
  errAt       \* the it.Next call that first failed, 0 when none did

vars ==
  <<pc, path, values, config, bound, submitted, status, body, schema, rawRow,
    projected, rows, it, calls, errAt>>

NoBound == [params |-> <<>>, isNil |-> TRUE, err |-> NoErr, at |-> ""]
NoBody == [written |-> FALSE, rows |-> <<>>]
NoProjection == [panic |-> FALSE, row |-> <<>>]
NoPath == [prefix |-> "/query/", rest |-> ""]
NoCalls == [bind |-> 0, read |-> 0, next |-> 0]
NoIterator == [failed |-> FALSE, sticky |-> FALSE]

\* everything but pc and the inputs, as the server holds it before a request
Rest ==
  /\ bound = NoBound
  /\ submitted = <<>>
  /\ status = 0
  /\ body = NoBody
  /\ projected = NoProjection
  /\ rows = <<>>
  /\ it = NoIterator
  /\ calls = NoCalls
  /\ errAt = 0

(***************************************************************************)
(* buildQueryParams on its own: every config and every request's values.   *)
(***************************************************************************)
BindInit ==
  /\ pc = "call"
  /\ path = NoPath
  /\ config \in Configs
  /\ values \in UrlValues(RawStrings)
  /\ schema = <<>>
  /\ rawRow = <<>>
  /\ Rest

BindCall ==
  /\ pc = "call"
  /\ \E order \in Orders(config) :
       bound' = buildQueryParams(config, values, order)
  /\ pc' = "returned"
  /\ calls' = [calls EXCEPT !.bind = @ + 1]
  /\ UNCHANGED <<path, values, config, submitted, status, body, schema,
                 rawRow, projected, rows, it, errAt>>

BindNext == BindCall

BindSpec == BindInit /\ [][BindNext]_vars

(***************************************************************************)
(* The projection of one row on its own: every schema and every raw row.   *)
(***************************************************************************)
ProjectInit ==
  /\ pc = "project"
  /\ path = NoPath
  /\ config = <<>>
  /\ values = [n \in ParamNames |-> <<>>]
  /\ schema \in Schemas
  /\ rawRow \in RawRows
  /\ Rest

ProjectCall ==
  /\ pc = "project"
  /\ projected' = ProjectRow(schema, rawRow)
  /\ pc' = "projected"
  /\ UNCHANGED <<path, values, config, bound, submitted, status, body, schema,
                 rawRow, rows, it, calls, errAt>>

ProjectNext == ProjectCall

ProjectSpec == ProjectInit /\ [][ProjectNext]_vars

(***************************************************************************)
(* queryHandler (src/main.go:65-116), one request at a time.               *)
(***************************************************************************)
StatusNotFound == 404
StatusBadRequest == 400
StatusInternalServerError == 500
StatusOK == 200

\* the registry (src/main.go:28-41); a nil Parameters map is the empty map
sqlQueries ==
  [n \in {"hello-world", "param"} |->
    IF n = "hello-world"
    THEN [Name |-> "hello-world", Parameters |-> <<>>]
    ELSE [Name |-> "param",
          Parameters |->
            [k \in {"name", "id"} |->
              IF k = "name" THEN StringFieldType ELSE FloatFieldType]]]

\* the paths routed to the handler, all under the pattern "/query/"
Paths == [prefix : {"/query/"}, rest : {"hello-world", "param", "missing"}]

\* strings.TrimPrefix(r.URL.Path, "/query/")
TrimPrefix(p) == p.rest

\* http.ResponseWriter.WriteHeader: the first status code written stays
WriteHeader(st, code) == IF st = 0 THEN code ELSE st

\* the schemas the engine answers with
HandlerSchemas ==
  { <<[Name |-> "id", Type |-> IntegerFieldType, Repeated |-> FALSE]>>,
    <<[Name |-> "id", Type |-> IntegerFieldType, Repeated |-> TRUE]>>,
    <<[Name |-> "id", Type |-> FloatFieldType, Repeated |-> FALSE],
      [Name |-> "name", Type |-> StringFieldType, Repeated |-> FALSE]>> }

\* what the client library loads for one column: a list for a REPEATED
\* column, else null or a value of the Go type of the column's type
ColumnValues(field) ==
  IF field.Repeated THEN { v \in EngineValues : v.t = "[]Value" }
  ELSE { v \in EngineValues : v = NilValue \/ v.t = AssertedType(field.Type) }

\* the rows the engine may answer with under a schema
EngineRows(fields) ==
  { r \in [FieldNames(fields) -> EngineValues] :
      \A i \in 1..Len(fields) : r[fields[i].Name] \in ColumnValues(fields[i]) }

Init ==
  /\ pc = "idle"
  /\ path = NoPath
  /\ config = <<>>
  /\ values = [n \in ParamNames |-> <<>>]
  /\ schema = <<>>
  /\ rawRow = <<>>
  /\ Rest

\* the server hands a request to the handler
Request ==
  /\ pc = "idle"
  /\ path' \in Paths
  /\ values' \in UrlValues(RequestStrings)
  /\ pc' = "lookup"
  /\ UNCHANGED <<config, bound, submitted, status, body, schema, rawRow,
                 projected, rows, it, calls, errAt>>

\* Lookup without its return: 404 is written and the handler goes on with the
\* zero SQLQuery
LookupNoReturn ==
  /\ pc = "lookup"
  /\ IF TrimPrefix(path) \in DOMAIN sqlQueries
     THEN /\ config' = sqlQueries[TrimPrefix(path)].Parameters
          /\ UNCHANGED status
     ELSE /\ status' = WriteHeader(status, StatusNotFound)
          /\ config' = <<>>
  /\ pc' = "bind"
  /\ UNCHANGED <<path, values, bound, submitted, body, schema, rawRow,
                 projected, rows, it, calls, errAt>>

\* lines 68-73: the query of that name, or 404
Lookup ==
  /\ pc = "lookup"
  /\ IF TrimPrefix(path) \in DOMAIN sqlQueries
     THEN /\ config' = sqlQueries[TrimPrefix(path)].Parameters
          /\ pc' = "bind"
          /\ UNCHANGED status
     ELSE /\ status' = WriteHeader(status, StatusNotFound)
          /\ pc' = "done"
          /\ UNCHANGED config
  /\ UNCHANGED <<path, values, bound, submitted, body, schema, rawRow,
                 projected, rows, it, calls, errAt>>

\* Bind with the error of buildQueryParams only logged
BindNoReturn ==
  /\ pc = "bind"
  /\ \E order \in Orders(config) :
       bound' = buildQueryParams(config, values, order)
  /\ calls' = [calls EXCEPT !.bind = @ + 1]
  /\ IF bound'.err # NoErr
     THEN status' = WriteHeader(status, StatusBadRequest)
     ELSE UNCHANGED status
  /\ pc' = "read"
  /\ UNCHANGED <<path, values, config, submitted, body, schema, rawRow,
                 projected, rows, it, errAt>>

\* lines 75-84: the parameters of the query, or 400
Bind ==
  /\ pc = "bind"
  /\ \E order \in Orders(config) :
       bound' = buildQueryParams(config, values, order)
  /\ calls' = [calls EXCEPT !.bind = @ + 1]
  /\ IF bound'.err # NoErr
     THEN /\ status' = WriteHeader(status, StatusBadRequest)
          /\ pc' = "done"
     ELSE /\ pc' = "read"
          /\ UNCHANGED status
  /\ UNCHANGED <<path, values, config, submitted, body, schema, rawRow,
                 projected, rows, it, errAt>>

\* lines 86-94: the engine starts the query, or fails and the answer is 500.
\* The iterator it hands back is either one whose failure stays (every later
\* it.Next returns the same error, as google.golang.org/api/iterator does) or
\* one that may report the end of the results after a failure.
Read ==
  /\ pc = "read"
  /\ calls' = [calls EXCEPT !.read = @ + 1]
  /\ submitted' = bound.params
  /\ \/ /\ status' = WriteHeader(status, StatusInternalServerError)
        /\ pc' = "done"
        /\ UNCHANGED <<schema, it>>
     \/ /\ schema' \in HandlerSchemas
        /\ it' \in [failed : {FALSE}, sticky : BOOLEAN]
        /\ pc' = "loop"
        /\ UNCHANGED status
  /\ UNCHANGED <<path, values, config, bound, body, rawRow, projected, rows,
                 errAt>>

\* lines 95-111, it.Next loads a row: the row is projected and collected; a
\* failed type assertion panics, which net/http recovers by dropping the
\* connection
LoopRow ==
  /\ pc = "loop"
  /\ calls.next < MaxNext
  /\ ~it.failed
  /\ calls' = [calls EXCEPT !.next = @ + 1]
  /\ rawRow' \in EngineRows(schema)
  /\ projected' = ProjectRow(schema, rawRow')
  /\ IF projected'.panic
     THEN pc' = "panicked" /\ UNCHANGED rows
     ELSE pc' = "loop" /\ rows' = Append(rows, projected'.row)
  /\ UNCHANGED <<path, values, config, bound, submitted, status, body,
                 schema, it, errAt>>

\* lines 95-111, it.Next returns an error that is not iterator.Done, with
\* rawRow the empty map made for this turn of the loop
LoopErr ==
  /\ pc = "loop"
  /\ calls.next < MaxNext
  /\ calls' = [calls EXCEPT !.next = @ + 1]
  /\ it' = [it EXCEPT !.failed = TRUE]
  /\ errAt' = IF errAt = 0 THEN calls'.next ELSE errAt
  /\ status' = WriteHeader(status, StatusInternalServerError)
  /\ rawRow' = <<>>
  /\ projected' = ProjectRow(schema, rawRow')
  /\ IF projected'.panic
     THEN pc' = "panicked" /\ UNCHANGED rows
     ELSE pc' = "loop" /\ rows' = Append(rows, projected'.row)
  /\ UNCHANGED <<path, values, config, bound, submitted, body, schema>>

\* lines 98-100 and 113-115, it.Next returns iterator.Done: the rows are
\* marshalled and written (the body is kept as the list of rows json.Marshal
\* encodes).  An iterator whose failure stays returns that failure, never
\* Done.
LoopDone ==
  /\ pc = "loop"
  /\ ~(it.failed /\ it.sticky)
  /\ calls' = [calls EXCEPT !.next = @ + 1]
  /\ body' = [written |-> TRUE, rows |-> rows]
  /\ status' = WriteHeader(status, StatusOK)
  /\ pc' = "done"
  /\ UNCHANGED <<path, values, config, bound, submitted, schema, rawRow,
                 projected, rows, it, errAt>>

Next == Request \/ Lookup \/ Bind \/ Read \/ LoopRow \/ LoopErr \/ LoopDone

Spec == Init /\ [][Next]_vars

(***************************************************************************)
(* The claims about buildQueryParams, under BindSpec.                      *)
(***************************************************************************)
Returned == pc = "returned"

\* the raw string does not parse as the numeric type
DoesNotParse(fieldType, raw) ==
  \/ fieldType = IntegerFieldType /\ Atoi(raw).err # NoErr
  \/ fieldType = FloatFieldType /\ ParseFloat(raw).err # NoErr

\* the binding buildQueryParams returned for key is exactly v
BoundTo(key, v) ==
  /\ \E i \in 1..Len(bound.params) : bound.params[i] = QueryParameter(key, v)
  /\ \A i \in 1..Len(bound.params) :
       bound.params[i].Name = key => bound.params[i].Value = v

\* C1: when the raw string of some Integer or Float parameter does not parse
\* (the empty string of an absent value included), buildQueryParams returns an
\* error and a nil list: no binding at all, no zero in place of the value.
C1_ParseFailureIsAnError ==
  Returned =>
    \A k \in DOMAIN config :
      ( /\ config[k] \in {IntegerFieldType, FloatFieldType}
        /\ (DoesNotParse(config[k], Get(values, k)) \/ Get(values, k) = <<>>) )
      => ( /\ bound.err # NoErr
           /\ bound.isNil
           /\ bound.params = <<>> )

C1_Witness ==
  /\ Returned
  /\ DOMAIN config = {"id", "name"}
  /\ config["id"] = IntegerFieldType
  /\ config["name"] = StringFieldType
  /\ values["id"] = <<>>
  /\ Get(values, "name") = <<"b", "r", "a", "v", "o">>
  /\ bound.err = ErrSyntax
  /\ bound.isNil
  /\ bound.params = <<>>

\* C2: the bindings buildQueryParams returns are in ascending order of
\* parameter name.
C2_BindingsSortedByName ==
  Returned /\ bound.err = NoErr =>
    \A i, j \in 1..Len(bound.params) :
      i < j => NameRank[bound.params[i].Name] < NameRank[bound.params[j].Name]

\* C7: a Boolean parameter is bound to true exactly when its raw string is
\* "true", to false for every other string and for an absent value, and is
\* never the parameter buildQueryParams fails at.
C7_BooleanIsLiteralTrue ==
  Returned =>
    /\ bound.err # NoErr => config[bound.at] # BooleanFieldType
    /\ bound.err = NoErr =>
         \A k \in DOMAIN config :
           config[k] = BooleanFieldType =>
             BoundTo(k, BoolValue(Get(values, k) = <<"t", "r", "u", "e">>))
    /\ (\A k \in DOMAIN config : config[k] = BooleanFieldType) => bound.err = NoErr

C7_Witness ==
  /\ Returned
  /\ DOMAIN config = {"id", "name"}
  /\ config["id"] = BooleanFieldType
  /\ config["name"] = BooleanFieldType
  /\ Get(values, "id") = <<"T", "r", "u", "e">>
  /\ Get(values, "name") = <<"t", "r", "u", "e">>
  /\ bound.err = NoErr
  /\ BoundTo("id", BoolValue(FALSE))
  /\ BoundTo("name", BoolValue(TRUE))

\* C8: a parameter of type String, or of any type other than Integer, Boolean
\* and Float, is bound to its raw string unchanged, to the empty string when
\* the request gives no value, and is never the parameter buildQueryParams
\* fails at.
C8_StringPassesThrough ==
  Returned =>
    /\ bound.err # NoErr =>
         config[bound.at] \in {IntegerFieldType, BooleanFieldType, FloatFieldType}
    /\ bound.err = NoErr =>
         \A k \in DOMAIN config :
           config[k] \notin {IntegerFieldType, BooleanFieldType, FloatFieldType} =>
             /\ BoundTo(k, StringValue(Get(values, k)))
             /\ values[k] = <<>> => BoundTo(k, StringValue(<<>>))
    /\ (\A k \in DOMAIN config :
          config[k] \notin {IntegerFieldType, BooleanFieldType, FloatFieldType})
       => bound.err = NoErr

C8_Witness ==
  /\ Returned
  /\ DOMAIN config = {"id", "name"}
  /\ config["id"] = TimestampFieldType
  /\ config["name"] = StringFieldType
  /\ values["id"] = <<>>
  /\ Get(values, "name") = <<"1", "e", "9", "9", "9">>
  /\ bound.err = NoErr
  /\ BoundTo("id", StringValue(<<>>))
  /\ BoundTo("name", StringValue(<<"1", "e", "9", "9", "9">>))

(***************************************************************************)
(* The claims about castField and the projection, under ProjectSpec.       *)
(***************************************************************************)
Projected == pc = "projected"

\* some non-null value of the row is not of the Go type its column declares
Mismatch(fields, raw) ==
  \E i \in 1..Len(fields) :
    LET v == RowGet(raw, fields[i].Name)
    IN /\ v # NilValue
       /\ \/ fields[i].Type = IntegerFieldType /\ v.t # "int64"
          \/ fields[i].Type = StringFieldType /\ v.t # "string"
          \/ fields[i].Type = BooleanFieldType /\ v.t # "bool"
          \/ fields[i].Type = FloatFieldType /\ v.t # "float64"

\* C5: a projected row has exactly the schema's column names as keys; a
\* column absent from the raw row, or null in it, is a key with value null;
\* every other value is kept unchanged; and a row whose non-null values are
\* of their declared types is projected.
C5_RowHasExactlyTheSchemaColumns ==
  Projected =>
    /\ ~Mismatch(schema, rawRow) => ~projected.panic
    /\ ~projected.panic =>
         /\ DOMAIN projected.row = FieldNames(schema)
         /\ \A n \in FieldNames(schema) :
              /\ n \notin DOMAIN rawRow => projected.row[n] = NilValue
              /\ n \in DOMAIN rawRow => projected.row[n] = rawRow[n]

C5_Witness ==
  /\ Projected
  /\ ~projected.panic
  /\ FieldNames(schema) = {"id", "name"}
  /\ DOMAIN rawRow = {"id"}
  /\ rawRow["id"] = [t |-> "int64", v |-> "2"]
  /\ projected.row["id"] = [t |-> "int64", v |-> "2"]
  /\ projected.row["name"] = NilValue

\* C6: a non-null value that is not of its column's declared type makes the
\* projection fail with a checked error, never with the panic of an unchecked
\* type assertion.
C6_MismatchIsACheckedError ==
  Projected /\ Mismatch(schema, rawRow) => ~projected.panic

(***************************************************************************)
(* The claims about queryHandler, under Spec.                              *)
(***************************************************************************)
\* C3: when binding fails the answer is 400 and the engine is never asked
\* (no q.Read, no it.Next); the engine is asked only after one successful
\* binding, and receives a binding for every declared parameter.
C3_BindingFailureStopsBeforeEngine ==
  /\ bound.err # NoErr =>
       /\ pc = "done"
       /\ status = StatusBadRequest
       /\ calls.read = 0
       /\ calls.next = 0
       /\ ~body.written
  /\ calls.read > 0 =>
       /\ calls.bind = 1
       /\ bound.err = NoErr
       /\ submitted = bound.params
       /\ Len(submitted) = Cardinality(DOMAIN config)
       /\ { submitted[i].Name : i \in 1..Len(submitted) } = DOMAIN config

C3_Witness ==
  /\ pc = "done"
  /\ TrimPrefix(path) = "param"
  /\ Get(values, "id") = <<"a", "b", "c">>
  /\ bound.err = ErrSyntax
  /\ status = StatusBadRequest
  /\ calls = [bind |-> 1, read |-> 0, next |-> 0]

\* C4: a request for a name that is not in the registry is answered 404, with
\* no call of buildQueryParams and no engine operation.
C4_UnknownQueryIsNotFound ==
  pc \notin {"idle", "lookup"} /\ TrimPrefix(path) \notin DOMAIN sqlQueries =>
    /\ pc = "done"
    /\ status = StatusNotFound
    /\ calls = NoCalls
    /\ ~body.written

C4_Witness ==
  /\ pc = "done"
  /\ TrimPrefix(path) = "missing"
  /\ status = StatusNotFound
  /\ calls = NoCalls

\* the engine failed: q.Read returned an error, or some it.Next did
EngineFailed ==
  \/ pc = "done" /\ calls.read = 1 /\ calls.next = 0
  \/ errAt # 0

\* C9: when the engine fails, at q.Read or at an it.Next, the answer is 500
\* and no body is written.
C9_EngineFailureWritesNoBody ==
  EngineFailed => status = StatusInternalServerError /\ ~body.written

\* C10: once an it.Next has failed, the handler calls it.Next no more and
\* collects no row for the failed read.
C10_LoopStopsAtError ==
  errAt # 0 => calls.next = errAt /\ Len(rows) = errAt - 1

====
